---- MODULE Spec2Model ----
(***************************************************************************)
(* BatchMatMul (caffe2/operators/batch_matmul_op.cc): the operator schema's *)
(* tensor (shape) inference function and the gradient maker.                *)
(*                                                                          *)
(* A run is one graph-construction pass over one BatchMatMul operator:      *)
(* shape inference on the forward operator, gradient synthesis from its     *)
(* definition, then shape inference on the two synthesized operators.       *)
(***************************************************************************)
EXTENDS Integers, Sequences, FiniteSets, TLC

VARIABLES def, in, out, grads, gshapes, pc

vars == <<def, in, out, grads, gshapes, pc>>

(* ---------------------------- bounds ----------------------------------- *)

\* largest tensor rank explored (rank 0 = scalar is included)
MaxRank == 3

\* largest size of one dimension explored
MaxDim == 2

(* ------------------------- data model ---------------------------------- *)

RECURSIVE SeqsOfLen(_, _)
SeqsOfLen(S, n) ==
  IF n = 0 THEN {<<>>}
  ELSE {Append(s, x) : s \in SeqsOfLen(S, n - 1), x \in S}

\* TensorShape.dims of an input blob
Shapes == UNION {SeqsOfLen(1..MaxDim, n) : n \in 0..MaxRank}

\* what a read past the end of a dims array may yield
Garbage == 0..MaxDim

\* an optional int argument of an OperatorDef: absent, or present with a value
OptVals == {<<>>, <<0>>, <<1>>}

MakeArgument(name, v) == [name |-> name, i |-> v]

OptArg(name, opt) ==
  IF opt = <<>> THEN <<>> ELSE <<MakeArgument(name, opt[1])>>

CreateOperatorDef(type, inputs, outputs, args) ==
  [type |-> type, input |-> inputs, output |-> outputs, arg |-> args]

\* the forward operator: BatchMatMul(A, B) -> Y with its optional arguments
ForwardDef(ta, tb, bc, us) ==
  CreateOperatorDef("BatchMatMul", <<"A", "B">>, <<"Y">>,
     OptArg("trans_a", ta) \o OptArg("trans_b", tb)
       \o OptArg("broadcast", bc) \o OptArg("use_scratch", us))

HasArgument(d, name) == \E k \in 1..Len(d.arg) : d.arg[k].name = name

GetArgument(d, name) ==
  d.arg[CHOOSE k \in 1..Len(d.arg) :
          /\ d.arg[k].name = name
          /\ \A j \in 1..(k - 1) : d.arg[j].name # name]

GetSingleArgument(d, name, default) ==
  IF HasArgument(d, name) THEN GetArgument(d, name).i ELSE default

\* names the gradient maker uses for blobs
I(d, k) == d.input[k + 1]
GO(d, k) == d.output[k + 1] \o "_grad"
GI(d, k) == d.input[k + 1] \o "_grad"

(* ---------------------- results of a call ------------------------------ *)

Ok(shape) == [status |-> "ok", shape |-> shape]
EnforceNotMet == [status |-> "EnforceNotMet", shape |-> <<>>]
\* the process dies on an out-of-range access (checked build, or a fault)
Abort == [status |-> "abort", shape |-> <<>>]
NotRun == [status |-> "none", shape |-> <<>>]

(* --------------- tensor inference: shared helpers ---------------------- *)

\* dims(k) / v[k] with the 0-based index k of the source
InRange(dims, k) == k >= 0 /\ k < Len(dims)

\* the values a read of dims(k) can yield: the element, or, past the ends of
\* the array, whatever the memory holds
ReadDims(dims, k) == IF InRange(dims, k) THEN {dims[k + 1]} ELSE Garbage

\* v[k] = x; a write past the ends leaves the vector itself unchanged
WriteDim(v, k, x) == IF InRange(v, k) THEN [v EXCEPT ![k + 1] = x] ELSE v

TransA(d) == GetSingleArgument(d, "trans_a", 0) # 0
TransB(d) == GetSingleArgument(d, "trans_b", 0) # 0

(* --------------- tensor inference: broadcast = 0 ----------------------- *)

\* variant: the rank check off by one
RankEnforceMutant(ndim) == ndim >= 1

\* CAFFE_ENFORCE_GE(ndim, 2) passes
RankEnforce(ndim) == ndim >= 2

\* index of the dimension of in[0] that becomes the output's row count
ADim0Index(d, ndim) == IF TransA(d) THEN ndim - 1 ELSE ndim - 2

\* variant: the two branches of trans_b exchanged
BDim1IndexMutant(d, ndim) == IF TransB(d) THEN ndim - 1 ELSE ndim - 2

\* index of the dimension of in[1] that becomes the output's column count;
\* ndim is the rank of in[0], also when in[1] has another rank
BDim1Index(d, ndim) == IF TransB(d) THEN ndim - 2 ELSE ndim - 1

NonBroadcastInfer(d, shapes) ==
  LET A == shapes[1]
      B == shapes[2]
      ndim == Len(A)
      ia == ADim0Index(d, ndim)
      ib == BDim1Index(d, ndim)
      undefined == \/ ~InRange(A, ia)
                   \/ ~InRange(B, ib)
                   \/ ~InRange(A, ndim - 2)
  IN IF ~RankEnforce(ndim) THEN {EnforceNotMet}
     ELSE {Ok(WriteDim(WriteDim(A, ndim - 2, a_dim0), ndim - 1, b_dim1)) :
              a_dim0 \in ReadDims(A, ia), b_dim1 \in ReadDims(B, ib)}
          \cup (IF undefined THEN {Abort} ELSE {})

(* --------------- tensor inference: broadcast = 1 ----------------------- *)

\* a 1-D A becomes (1, K)
PromoteA(A) == IF Len(A) = 1 THEN <<1>> \o A ELSE A

\* a 1-D B becomes (K, 1)
PromoteB(B) == IF Len(B) = 1 THEN Append(B, 1) ELSE B

MIndex(d, ndims_A) == IF TransA(d) THEN ndims_A - 1 ELSE ndims_A - 2
KIndex(d, ndims_A) == IF TransA(d) THEN ndims_A - 2 ELSE ndims_A - 1
NIndex(d, ndims_B) == IF TransB(d) THEN ndims_B - 2 ELSE ndims_B - 1

\* variant: B wins when the ranks are equal
BatchPrefixSourceMutant(dims_A, dims_B) ==
  IF Len(dims_A) > Len(dims_B) THEN dims_A ELSE dims_B

\* the operand whose leading dimensions become the output's leading dimensions
BatchPrefixSource(dims_A, dims_B) ==
  IF Len(dims_A) >= Len(dims_B) THEN dims_A ELSE dims_B

\* the dimensions pushed after the leading ones
TrailingDims(A_broadcasted, B_broadcasted, M, N) ==
  (IF ~A_broadcasted THEN <<M>> ELSE <<>>)
    \o (IF ~B_broadcasted THEN <<N>> ELSE <<>>)
    \o (IF A_broadcasted /\ B_broadcasted THEN <<1>> ELSE <<>>)

BroadcastInfer(d, shapes) ==
  LET A_broadcasted == Len(shapes[1]) = 1
      B_broadcasted == Len(shapes[2]) = 1
      dims_A == PromoteA(shapes[1])
      dims_B == PromoteB(shapes[2])
      ndims_A == Len(dims_A)
      ndims_B == Len(dims_B)
      im == MIndex(d, ndims_A)
      ik == KIndex(d, ndims_A)
      jn == NIndex(d, ndims_B)
      src == BatchPrefixSource(dims_A, dims_B)
      \* assign(begin, end - 2) needs end - 2 not before begin
      prefixOk == Len(src) >= 2
      undefined == \/ ~InRange(dims_A, im)
                   \/ ~InRange(dims_A, ik)
                   \/ ~InRange(dims_B, jn)
                   \/ ~prefixOk
  IN (IF prefixOk
        THEN {Ok(SubSeq(src, 1, Len(src) - 2)
                   \o TrailingDims(A_broadcasted, B_broadcasted, M, N)) :
                 M \in ReadDims(dims_A, im), N \in ReadDims(dims_B, jn)}
        ELSE {})
     \cup (IF undefined THEN {Abort} ELSE {})

\* the set of outcomes of the schema's TensorInferenceFunction on (def, in)
TensorInference(d, shapes) ==
  IF GetSingleArgument(d, "broadcast", 0) = 0
    THEN NonBroadcastInfer(d, shapes)
    ELSE BroadcastInfer(d, shapes)

(* ------------------------ gradient maker ------------------------------- *)

GradOk(defs) == [status |-> "ok", defs |-> defs]
GradEnforceNotMet == [status |-> "EnforceNotMet", defs |-> <<>>]
GradNotRun == [status |-> "none", defs |-> <<>>]

\* variant: the broadcast argument is not read
BroadcastRequestedMutant(d) == FALSE

BroadcastRequested(d) ==
  IF HasArgument(d, "broadcast") THEN GetArgument(d, "broadcast").i # 0
  ELSE FALSE

GradTransA(d) ==
  IF HasArgument(d, "trans_a") THEN GetArgument(d, "trans_a").i # 0 ELSE FALSE

GradTransB(d) ==
  IF HasArgument(d, "trans_b") THEN GetArgument(d, "trans_b").i # 0 ELSE FALSE

\* what is pushed onto each of the four argument vectors
ScratchArg(d) ==
  IF HasArgument(d, "use_scratch") THEN <<MakeArgument("use_scratch", 1)>>
  ELSE <<>>

no_trans_arg(d) == <<>> \o ScratchArg(d)
trans_a_arg(d) == <<MakeArgument("trans_a", 1)>> \o ScratchArg(d)
\* variant: trans_b made with the value 0
trans_b_argMutant(d) == <<MakeArgument("trans_b", 0)>> \o ScratchArg(d)

trans_b_arg(d) == <<MakeArgument("trans_b", 1)>> \o ScratchArg(d)
trans_both_arg(d) ==
  <<MakeArgument("trans_a", 1), MakeArgument("trans_b", 1)>> \o ScratchArg(d)

\* variant: in the case AB', the operands of dB exchanged
GradientPairMutant(d, trans_a, trans_b) ==
  IF trans_a
    THEN IF trans_b
      THEN << CreateOperatorDef("BatchMatMul", <<I(d, 1), GO(d, 0)>>,
                                <<GI(d, 0)>>, trans_both_arg(d)),
              CreateOperatorDef("BatchMatMul", <<GO(d, 0), I(d, 0)>>,
                                <<GI(d, 1)>>, trans_both_arg(d)) >>
      ELSE << CreateOperatorDef("BatchMatMul", <<I(d, 1), GO(d, 0)>>,
                                <<GI(d, 0)>>, trans_b_arg(d)),
              CreateOperatorDef("BatchMatMul", <<I(d, 0), GO(d, 0)>>,
                                <<GI(d, 1)>>, no_trans_arg(d)) >>
    ELSE IF trans_b
      THEN << CreateOperatorDef("BatchMatMul", <<GO(d, 0), I(d, 1)>>,
                                <<GI(d, 0)>>, no_trans_arg(d)),
              \* operands of dB exchanged
              CreateOperatorDef("BatchMatMul", <<I(d, 0), GO(d, 0)>>,
                                <<GI(d, 1)>>, trans_a_arg(d)) >>
      ELSE << CreateOperatorDef("BatchMatMul", <<GO(d, 0), I(d, 1)>>,
                                <<GI(d, 0)>>, trans_b_arg(d)),
              CreateOperatorDef("BatchMatMul", <<I(d, 0), GO(d, 0)>>,
                                <<GI(d, 1)>>, trans_a_arg(d)) >>

\* the four cases of the trans_a / trans_b dispatch
GradientPair(d, trans_a, trans_b) ==
  IF trans_a
    THEN IF trans_b
      THEN \* A'B': dA = B'G', dB = G'A'
        << CreateOperatorDef("BatchMatMul", <<I(d, 1), GO(d, 0)>>,
                             <<GI(d, 0)>>, trans_both_arg(d)),
           CreateOperatorDef("BatchMatMul", <<GO(d, 0), I(d, 0)>>,
                             <<GI(d, 1)>>, trans_both_arg(d)) >>
      ELSE \* A'B: dA = BG', dB = AG
        << CreateOperatorDef("BatchMatMul", <<I(d, 1), GO(d, 0)>>,
                             <<GI(d, 0)>>, trans_b_arg(d)),
           CreateOperatorDef("BatchMatMul", <<I(d, 0), GO(d, 0)>>,
                             <<GI(d, 1)>>, no_trans_arg(d)) >>
    ELSE IF trans_b
      THEN \* AB': dA = GB, dB = G'A
        << CreateOperatorDef("BatchMatMul", <<GO(d, 0), I(d, 1)>>,
                             <<GI(d, 0)>>, no_trans_arg(d)),
           CreateOperatorDef("BatchMatMul", <<GO(d, 0), I(d, 0)>>,
                             <<GI(d, 1)>>, trans_a_arg(d)) >>
      ELSE \* AB: dA = GB', dB = A'G
        << CreateOperatorDef("BatchMatMul", <<GO(d, 0), I(d, 1)>>,
                             <<GI(d, 0)>>, trans_b_arg(d)),
           CreateOperatorDef("BatchMatMul", <<I(d, 0), GO(d, 0)>>,
                             <<GI(d, 1)>>, trans_a_arg(d)) >>

GetGradientDefs(d) ==
  IF Len(d.input) # 2 THEN GradEnforceNotMet
  ELSE IF BroadcastRequested(d) THEN GradEnforceNotMet
  ELSE GradOk(GradientPair(d, GradTransA(d), GradTransB(d)))

(* ------------------------- state machine ------------------------------- *)

Init ==
  /\ \E ta \in OptVals, tb \in OptVals, bc \in OptVals, us \in OptVals :
       def = ForwardDef(ta, tb, bc, us)
  /\ in \in Shapes \X Shapes
  /\ out = NotRun
  /\ grads = GradNotRun
  /\ gshapes = <<NotRun, NotRun>>
  /\ pc = "start"

\* shape inference on the forward operator
InferShape ==
  /\ pc = "start"
  /\ out' \in TensorInference(def, in)
  /\ pc' = "inferred"
  /\ UNCHANGED <<def, in, grads, gshapes>>

\* gradient synthesis from the forward operator's definition
MakeGradient ==
  /\ pc = "inferred"
  /\ grads' = GetGradientDefs(def)
  /\ pc' = "gradient"
  /\ UNCHANGED <<def, in, out, gshapes>>

\* the shape of a blob the synthesized operators read; the gradient of the
\* output has the output's shape
BlobShape(name) ==
  IF name = I(def, 0) THEN in[1]
  ELSE IF name = I(def, 1) THEN in[2]
  ELSE out.shape

\* shape inference on the two synthesized operators
InferGradientShapes ==
  /\ pc = "gradient"
  /\ out.status = "ok"
  /\ grads.status = "ok"
  /\ \E s1 \in TensorInference(grads.defs[1],
                 <<BlobShape(grads.defs[1].input[1]),
                   BlobShape(grads.defs[1].input[2])>>),
        s2 \in TensorInference(grads.defs[2],
                 <<BlobShape(grads.defs[2].input[1]),
                   BlobShape(grads.defs[2].input[2])>>) :
       gshapes' = <<s1, s2>>
  /\ pc' = "done"
  /\ UNCHANGED <<def, in, out, grads>>

Next == InferShape \/ MakeGradient \/ InferGradientShapes

Spec == Init /\ [][Next]_vars

(* ------------------- vocabulary of the properties ---------------------- *)

A == in[1]
B == in[2]

\* the values the forward operator carries for an argument (empty: absent)
ArgValues(d, name) == {d.arg[k].i : k \in {j \in 1..Len(d.arg) : d.arg[j].name = name}}

FlagOn(name) == 1 \in ArgValues(def, name)
BroadcastOn == FlagOn("broadcast")

Inferred == pc \in {"inferred", "gradient", "done"}
GradMade == pc \in {"gradient", "done"}

\* the last and the second-to-last dimension of a shape of rank >= 2
Last(s) == s[Len(s)]
Last2(s) == s[Len(s) - 1]
Prefix(s) == SubSeq(s, 1, Len(s) - 2)

\* rows of op(A), columns of op(B), and the two contraction dimensions
RowsOf(s, t) == IF t THEN Last(s) ELSE Last2(s)
ColsOf(s, t) == IF t THEN Last2(s) ELSE Last(s)

\* the transpose flags (name, value) an emitted operator carries
TransFlags(op) ==
  {op.arg[k] : k \in {j \in 1..Len(op.arg) :
                        op.arg[j].name \in {"trans_a", "trans_b"}}}

OnlyA == {MakeArgument("trans_a", 1)}
OnlyB == {MakeArgument("trans_b", 1)}
Both == OnlyA \cup OnlyB

\* the table of the four cases: (inputs, flags) of dA and of dB
GradientTable(ta, tb) ==
  IF ~ta /\ ~tb THEN << <<"Y_grad", "B">>, OnlyB, <<"A", "Y_grad">>, OnlyA >>
  ELSE IF ~ta /\ tb THEN << <<"Y_grad", "B">>, {}, <<"Y_grad", "A">>, OnlyA >>
  ELSE IF ta /\ ~tb THEN << <<"B", "Y_grad">>, OnlyB, <<"A", "Y_grad">>, {} >>
  ELSE << <<"B", "Y_grad">>, Both, <<"Y_grad", "A">>, Both >>

(* ------------------------------ C1 ------------------------------------- *)

\* C1: with broadcast unset or 0, gradient synthesis returns exactly two
\* BatchMatMul operators, the first with the single output A_grad and the
\* second with the single output B_grad, whose ordered inputs and transpose
\* flags are those of the table, for each of the four (trans_a, trans_b).
C1_GradientTable ==
  (GradMade /\ ~BroadcastOn) =>
    LET t == GradientTable(FlagOn("trans_a"), FlagOn("trans_b"))
    IN /\ grads.status = "ok"
       /\ Len(grads.defs) = 2
       /\ \A k \in 1..2 : grads.defs[k].type = "BatchMatMul"
       /\ grads.defs[1].output = <<"A_grad">>
       /\ grads.defs[2].output = <<"B_grad">>
       /\ grads.defs[1].input = t[1]
       /\ TransFlags(grads.defs[1]) = t[2]
       /\ grads.defs[2].input = t[3]
       /\ TransFlags(grads.defs[2]) = t[4]

C1_Witness ==
  /\ pc = "gradient"
  /\ ~BroadcastOn
  /\ ~FlagOn("trans_a")
  /\ FlagOn("trans_b")
  /\ grads.status = "ok"
  /\ grads.defs[2].input = <<"Y_grad", "A">>

(* ------------------------------ C2 ------------------------------------- *)

SameRankMatrices == Len(A) = Len(B) /\ Len(A) >= 2

ContractionMatches ==
  ColsOf(A, FlagOn("trans_a")) = RowsOf(B, FlagOn("trans_b"))

\* C2: with broadcast unset or 0, for shapes of equal rank r >= 2 whose
\* contraction dimensions match, the inferred shape has rank r, A's leading
\* r-2 entries, and the last two entries (M, N).
C2_NonBroadcastShape ==
  (Inferred /\ ~BroadcastOn /\ SameRankMatrices /\ ContractionMatches) =>
    /\ out.status = "ok"
    /\ Len(out.shape) = Len(A)
    /\ Prefix(out.shape) = Prefix(A)
    /\ Last2(out.shape) = RowsOf(A, FlagOn("trans_a"))
    /\ Last(out.shape) = ColsOf(B, FlagOn("trans_b"))

C2_Witness ==
  /\ pc = "inferred"
  /\ ~BroadcastOn
  /\ Len(A) = 3 /\ Len(B) = 3
  /\ ContractionMatches
  /\ FlagOn("trans_a") /\ FlagOn("trans_b")
  /\ Last(A) # Last2(A)
  /\ Last(B) # Last2(B)
  /\ out = Ok(<<A[1], Last(A), Last2(B)>>)

(* ------------------------------ C3 ------------------------------------- *)

\* C3: gradient synthesis fails and returns no operator whenever the forward
\* operator's broadcast argument is 1, whatever trans_a, trans_b and
\* use_scratch are.
C3_BroadcastGradientRejected ==
  (GradMade /\ BroadcastOn) =>
    (grads.status = "EnforceNotMet" /\ grads.defs = <<>>)

C3_Witness ==
  /\ pc = "gradient"
  /\ BroadcastOn
  /\ FlagOn("trans_a")
  /\ ArgValues(def, "use_scratch") # {}
  /\ grads.status = "EnforceNotMet"

(* ------------------------------ C4 ------------------------------------- *)

\* C4: shape inference fails, with and without broadcast, whenever the
\* contraction dimension of A differs from the contraction dimension of B.
C4_ContractionMismatchRejected ==
  (Inferred /\ Len(A) >= 2 /\ Len(B) >= 2 /\ ~ContractionMatches) =>
    out.status = "EnforceNotMet"

(* ------------------------------ C5 ------------------------------------- *)

\* C5: with broadcast unset or 0, shape inference fails whenever
\* rank(A) # rank(B); no output shape comes from operands of different rank.
C5_RankMismatchRejected ==
  (Inferred /\ ~BroadcastOn /\ Len(A) # Len(B)) =>
    out.status = "EnforceNotMet"

(* ------------------------------ C6 ------------------------------------- *)

\* numpy.matmul, as the reference of the broadcast mode: a 1-D first operand
\* is a row, a 1-D second operand a column
AsRow(s) == IF Len(s) = 1 THEN <<1>> \o s ELSE s
AsColumn(s) == IF Len(s) = 1 THEN Append(s, 1) ELSE s

\* the last two axes exchanged
Transposed(s, t) ==
  IF t THEN Prefix(s) \o <<Last(s), Last2(s)>> ELSE s

\* a batch prefix padded on the left with 1s to length n
RECURSIVE PadLeft(_, _)
PadLeft(s, n) == IF Len(s) >= n THEN s ELSE PadLeft(<<1>> \o s, n)

Longest(s, t) == IF Len(s) >= Len(t) THEN Len(s) ELSE Len(t)

BroadcastCompatible(s, t) ==
  LET n == Longest(s, t)
      ps == PadLeft(s, n)
      pt == PadLeft(t, n)
  IN \A k \in 1..n : ps[k] = pt[k] \/ ps[k] = 1 \/ pt[k] = 1

BroadcastOf(s, t) ==
  LET n == Longest(s, t)
      ps == PadLeft(s, n)
      pt == PadLeft(t, n)
  IN [k \in 1..n |-> IF ps[k] >= pt[k] THEN ps[k] ELSE pt[k]]

NumpyA == Transposed(AsRow(A), FlagOn("trans_a"))
NumpyB == Transposed(AsColumn(B), FlagOn("trans_b"))

\* the operands numpy.matmul accepts: no scalars, equal contraction
\* dimensions, broadcastable batch dimensions (a 1-D operand has no two axes
\* to transpose)
NumpyAccepts ==
  /\ Len(A) >= 1
  /\ Len(B) >= 1
  /\ Len(A) = 1 => ~FlagOn("trans_a")
  /\ Len(B) = 1 => ~FlagOn("trans_b")
  /\ Last(NumpyA) = Last2(NumpyB)
  /\ BroadcastCompatible(Prefix(NumpyA), Prefix(NumpyB))

NumpyShape ==
  BroadcastOf(Prefix(NumpyA), Prefix(NumpyB))
    \o (IF Len(A) = 1 THEN <<>> ELSE <<Last2(NumpyA)>>)
    \o (IF Len(B) = 1 THEN <<>> ELSE <<Last(NumpyB)>>)

\* C6: with broadcast = 1 the inferred shape is the shape numpy.matmul
\* produces for the same operands, for all operands numpy.matmul accepts; the
\* leading dimensions are the NumPy broadcast of the batch dimensions.
C6_SameAsNumpyMatmul ==
  (Inferred /\ BroadcastOn /\ NumpyAccepts) => out = Ok(NumpyShape)

(* ------------------------------ C7 ------------------------------------- *)

C8_UseScratchPropagated ==
  (GradMade /\ grads.status = "ok") =>
    \A k \in 1..2 :
      ArgValues(grads.defs[k], "use_scratch") = ArgValues(def, "use_scratch")

(* ------------------------------ C9 ------------------------------------- *)

\* C9: with broadcast unset or 0, shape inference fails whenever rank(A) < 2,
\* for every shape of B and every (trans_a, trans_b); no shape is returned.
C9_LowRankRejected ==
  (Inferred /\ ~BroadcastOn /\ Len(A) < 2) => out = EnforceNotMet

C9_Witness ==
  /\ pc = "inferred"
  /\ ~BroadcastOn
  /\ Len(A) = 1
  /\ Len(B) = 3
  /\ FlagOn("trans_a")
  /\ out = EnforceNotMet

(* ------------------------------ C10 ------------------------------------ *)

\* C10: with broadcast unset, for shapes of equal rank r >= 2 with identical
\* batch dimensions and matching contraction dimension, shape inference on
\* the first emitted operator (A, B and the output gradient bound to the
\* shapes of A, B and Y) gives the shape of A, and on the second the shape
\* of B.
C10_GradientShapes ==
  (/\ pc = "done"
   /\ ~BroadcastOn
   /\ SameRankMatrices
   /\ Prefix(A) = Prefix(B)
   /\ ContractionMatches) =>
    gshapes = <<Ok(A), Ok(B)>>

C10_Witness ==
  /\ pc = "done"
  /\ ~BroadcastOn
  /\ Len(A) = 3 /\ Len(B) = 3
  /\ Prefix(A) = Prefix(B)
  /\ ContractionMatches
  /\ FlagOn("trans_a") /\ ~FlagOn("trans_b")
  /\ Last(A) # Last2(A)
  /\ Last(B) # Last2(B)
  /\ gshapes = <<Ok(A), Ok(B)>>

====
